---- MODULE Spec2Model ----
(***************************************************************************)
(* MP3ify: track resolution, fuzzy matching and the batch pipeline.        *)
(*                                                                         *)
(* Three layers of src/mp3ify.py and src/utils.py are modelled, each with  *)
(* its own specification over the same variables:                          *)
(*   SpecNorm    utils.process_spotify_song_name on bounded raw titles     *)
(*   SpecResolve mp3ify.search_youtube_single_track for one track: the     *)
(*               search call, the thread-pool fan-out of                   *)
(*               search_single_track, the as_completed loop, the join and  *)
(*               the pick of the winner                                    *)
(*   SpecBatch   the __main__ block: Pool.starmap of download_track over   *)
(*               the liked tracks, the shared failed_tracks list and the   *)
(*               final report                                              *)
(* A Python str is modelled as a sequence of one-character strings, so     *)
(* that `in`, split, strip, replace, join and lower are computed and not   *)
(* assumed.                                                                *)
(***************************************************************************)
EXTENDS Integers, Sequences, FiniteSets, TLC

VARIABLES
    nArtists,       \* SpecNorm: song_artists argument (list of str)
    nTitle,         \* SpecNorm: song_title argument, as the tokens typed so far
    nPc,            \* SpecNorm: "input" | "done"
    nResult,        \* SpecNorm: what process_spotify_song_name returned / raised
    rTrack,         \* SpecResolve: track_info
    rPc,            \* SpecResolve: where search_youtube_single_track stands
    rEntries,       \* SpecResolve: search_results['entries']
    rFut,           \* SpecResolve: futures, in submission order
    rYielded,       \* SpecResolve: the futures as_completed has yielded so far
    rMatches,       \* SpecResolve: matches
    rResult,        \* SpecResolve: what the call returned or raised
    bTracks,        \* SpecBatch: tracks, the list get_info_tracks returned
    bProcs,         \* SpecBatch: processes of Pool(), os.cpu_count()
    bTaskq,         \* SpecBatch: chunks of tasks no worker has taken yet
    bWorker,        \* SpecBatch: per pool process, its chunk and its place in download_track
    bHist,          \* SpecBatch: per track, the states of section 4.4 it went through
    bSearches,      \* SpecBatch: per track, calls of search_youtube_single_track
    bDownloads,     \* SpecBatch: per track, calls of ydl.download
    bError,         \* SpecBatch: per track, the exception that left download_track
    failed_tracks,  \* SpecBatch: the manager.list() shared by the workers
    bLeft,          \* SpecBatch: MapResult._number_left, chunks not finished
    bSuccess,       \* SpecBatch: MapResult._success
    bMain,          \* SpecBatch: where the __main__ block stands
    bReport         \* SpecBatch: the lines of the final report printed

normVars == <<nArtists, nTitle, nPc, nResult>>
resolveVars == <<rTrack, rPc, rEntries, rFut, rYielded, rMatches, rResult>>

batchVars == <<bTracks, bProcs, bTaskq, bWorker, bHist, bSearches, bDownloads, bError,
               failed_tracks, bLeft, bSuccess, bMain, bReport>>

vars == <<normVars, resolveVars, batchVars>>

(***************************************************************************)
(* Bounds of the model.                                                    *)
(***************************************************************************)
MaxTokens == 3      \* a raw catalog title is at most this many tokens long
MaxEntries == 3     \* a search response holds at most this many entries
MaxTracks == 2      \* liked songs in one batch run
MaxProcs == 2       \* processes of the pool
MaxBatchEntries == 1 \* entries of a search response in a batch run

(***************************************************************************)
(* Values shared by the layers, and the state of a layer that is not run.  *)
(***************************************************************************)
None == "None"

\* an exception that leaves a function, in place of its return value
ValueError == [ok |-> FALSE, error |-> "ValueError"]

Pending == [state |-> "pending"]
NoResult == [kind |-> "none"]

\* raise RuntimeError(f"Error searching YouTube: {e}")
SearchError == [kind |-> "raise", error |-> "RuntimeError"]

NormIdle ==
    /\ nArtists = <<>>
    /\ nTitle = <<>>
    /\ nPc = "idle"
    /\ nResult = ValueError

ResolveIdle ==
    /\ rTrack = None
    /\ rPc = "idle"
    /\ rEntries = <<>>
    /\ rFut = <<>>
    /\ rYielded = <<>>
    /\ rMatches = <<>>
    /\ rResult = NoResult

BatchIdle ==
    /\ bTracks = <<>>
    /\ bProcs = 0
    /\ bTaskq = <<>>
    /\ bWorker = <<>>
    /\ bHist = <<>>
    /\ bSearches = <<>>
    /\ bDownloads = <<>>
    /\ bError = <<>>
    /\ failed_tracks = <<>>
    /\ bLeft = 0
    /\ bSuccess = TRUE
    /\ bMain = "idle"
    /\ bReport = <<>>

(***************************************************************************)
(* Python str operations, on sequences of characters.                      *)
(***************************************************************************)
SetMin(S) == CHOOSE x \in S : \A y \in S : x <= y

\* Bind(e, F) is F(e), with e evaluated once, as a local variable of the code
\* is: a quantifier binds a value, where LET would bind the expression.
Bind(e, F(_)) == CHOOSE v \in {F(x) : x \in {e}} : TRUE

\* s[i:i+len(sub)] == sub
IsAt(s, sub, i) ==
    /\ i + Len(sub) - 1 <= Len(s)
    /\ SubSeq(s, i, i + Len(sub) - 1) = sub

Occurrences(s, sub) == {i \in 1..Len(s) : IsAt(s, sub, i)}

\* sub in s   (sub is never empty here)
Contains(s, sub) == Occurrences(s, sub) # {}

\* s.split(sep): every non-overlapping occurrence, left to right
RECURSIVE Split(_, _)
Split(s, sep) ==
    Bind(Occurrences(s, sep), LAMBDA occ :
        IF occ = {} THEN <<s>>
        ELSE Bind(SetMin(occ), LAMBDA i :
                <<SubSeq(s, 1, i - 1)>>
                \o Bind(SubSeq(s, i + Len(sep), Len(s)), LAMBDA rest : Split(rest, sep))))

\* s.split(sep, maxsplit=1)
SplitOnce(s, sep) ==
    Bind(Occurrences(s, sep), LAMBDA occ :
        IF occ = {} THEN <<s>>
        ELSE Bind(SetMin(occ), LAMBDA i :
                <<SubSeq(s, 1, i - 1), SubSeq(s, i + Len(sep), Len(s))>>))

\* s.strip()   (the only whitespace of the alphabet is the space)
RECURSIVE Strip(_)
Strip(s) ==
    IF s = <<>> THEN s
    ELSE IF Head(s) = " " THEN Strip(Tail(s))
    ELSE IF s[Len(s)] = " " THEN Strip(SubSeq(s, 1, Len(s) - 1))
    ELSE s

\* s.replace(")", "")
DropParen(s) == SelectSeq(s, LAMBDA c : c # ")")

\* sep.join(parts)
RECURSIVE Join(_, _)
Join(parts, sep) ==
    IF parts = <<>> THEN <<>>
    ELSE IF Len(parts) = 1 THEN parts[1]
    ELSE parts[1] \o sep \o Join(Tail(parts), sep)

LowerChar(c) ==
    CASE c = "A" -> "a" [] c = "B" -> "b" [] c = "C" -> "c"
      [] c = "S" -> "s" [] c = "X" -> "x" [] OTHER -> c

\* s.lower()
Lower(s) == [i \in 1..Len(s) |-> LowerChar(s[i])]

InSeq(x, s) == \E i \in 1..Len(s) : s[i] = x

\* flatten a list of str into one str
RECURSIVE Concat(_)
Concat(parts) == IF parts = <<>> THEN <<>> ELSE Head(parts) \o Concat(Tail(parts))

(***************************************************************************)
(* utils.py: the featured-artist markers and the catalog normalizer.       *)
(***************************************************************************)
\* feat_strings = [" feat.", " ft.", "(feat.", "(ft."]
feat_strings ==
    << <<" ", "f", "e", "a", "t", ".">>,
       <<" ", "f", "t", ".">>,
       <<"(", "f", "e", "a", "t", ".">>,
       <<"(", "f", "t", ".">> >>

CommaSep == <<",", " ">>
AmpSep == <<"&", " ">>

\* [artist.replace(")", "").strip()
\*  for artist in featured_artists.split(", " if ", " in featured_artists else "& ")]
ParseFeatured(featured_artists) ==
    Bind(Split(featured_artists,
               IF Contains(featured_artists, CommaSep) THEN CommaSep ELSE AmpSep),
         LAMBDA parts : [i \in 1..Len(parts) |-> Strip(DropParen(parts[i]))])

\* The loop `for feat_string in feat_strings`, from its k-th marker on: artists
\* and title are the locals of that name.  There is no break: every marker the
\* title holds is split on, each split rebinds title, each extends artists.
\* The unpacking `title, featured_artists = song_title.split(feat_string)`
\* raises ValueError when the marker occurs more than once.
RECURSIVE SpotifyLoop(_, _, _, _)
SpotifyLoop(k, song_title, artists, title) ==
    IF k > Len(feat_strings) THEN [ok |-> TRUE, artists |-> artists, title |-> title]
    ELSE IF Contains(song_title, feat_strings[k])
    THEN Bind(Split(song_title, feat_strings[k]), LAMBDA parts :
            IF Len(parts) # 2 THEN ValueError
            ELSE Bind(artists \o ParseFeatured(parts[2]), LAMBDA extended :
                    SpotifyLoop(k + 1, song_title, extended, parts[1])))
    ELSE SpotifyLoop(k + 1, song_title, artists, title)

\* for artist in artists: if artist not in song_artists: song_artists.append(artist)
RECURSIVE AppendNew(_, _)
AppendNew(song_artists, artists) ==
    IF artists = <<>> THEN song_artists
    ELSE AppendNew(IF InSeq(Head(artists), song_artists) THEN song_artists
                   ELSE Append(song_artists, Head(artists)),
                   Tail(artists))

process_spotify_song_name(song_artists, song_title) ==
    Bind(SpotifyLoop(1, song_title, <<>>, <<>>), LAMBDA loop :
        IF ~loop.ok THEN ValueError
        ELSE [ok      |-> TRUE,
              artists |-> AppendNew(song_artists, loop.artists),
              title   |-> Strip(IF loop.artists = <<>> THEN song_title ELSE loop.title)])

(***************************************************************************)
(* utils.py: the search-result title normalizer.                           *)
(***************************************************************************)
DashSep == <<" ", "-", " ">>

\* The loop of process_yt_title from its k-th marker on; la, ra and title are
\* left_artists, right_artists and title (None is modelled as the empty str:
\* the only test on it is `if not title`, which both satisfy).
RECURSIVE YtLoop(_, _, _, _, _, _)
YtLoop(k, left_side, right_side, la, ra, title) ==
    IF k > Len(feat_strings) THEN [ok |-> TRUE, la |-> la, ra |-> ra, title |-> title]
    ELSE
      Bind(Split(left_side, feat_strings[k]), LAMBDA lparts :
      Bind(Split(right_side, feat_strings[k]), LAMBDA rparts :
        \* a marker is in a side exactly when the split has more than one part
        IF Len(lparts) > 2 \/ Len(rparts) > 2 THEN ValueError
        ELSE Bind(IF Len(lparts) = 2
                  THEN la \o <<Strip(lparts[1])>> \o ParseFeatured(lparts[2]) ELSE la,
                  LAMBDA la2 :
             Bind(IF Len(rparts) = 2 THEN ra \o ParseFeatured(rparts[2]) ELSE ra,
                  LAMBDA ra2 :
                YtLoop(k + 1, left_side, right_side, la2, ra2,
                       IF Len(rparts) = 2 THEN rparts[1] ELSE title)))))

process_yt_title(yt_title) ==
    Bind(SplitOnce(yt_title, DashSep), LAMBDA sides :
        IF Len(sides) # 2 THEN ValueError
        ELSE Bind(YtLoop(1, sides[1], sides[2], <<>>, <<>>, <<>>), LAMBDA loop :
                IF ~loop.ok THEN ValueError
                ELSE [ok      |-> TRUE,
                      artists |-> (IF loop.la = <<>> THEN <<Strip(sides[1])>>
                                   ELSE loop.la) \o loop.ra,
                      title   |-> IF loop.title = <<>> THEN Strip(sides[2])
                                  ELSE loop.title]))

(***************************************************************************)
(* utils.similarity_ratio: difflib.SequenceMatcher(None, a, b).ratio()     *)
(* with no junk (the autojunk heuristic needs 200 characters).  A ratio    *)
(* is kept exact, as the fraction num/den.                                 *)
(***************************************************************************)
SetMax(S) == CHOOSE x \in S : \A y \in S : x >= y

\* length of the common run that starts at a[i], b[j] and stays below ahi, bhi
RECURSIVE RunLen(_, _, _, _, _, _)
RunLen(a, b, i, j, ahi, bhi) ==
    IF i < ahi /\ j < bhi /\ a[i] = b[j] THEN 1 + RunLen(a, b, i + 1, j + 1, ahi, bhi)
    ELSE 0

\* find_longest_match: the longest block of a[alo..ahi-1], b[blo..bhi-1]; of
\* those the one earliest in a, and of those the one earliest in b
\* <<i, j, k>> is a better block than <<i2, j2, k2>>, or the same
BetterBlock(c, d) ==
    \/ c[3] > d[3]
    \/ c[3] = d[3] /\ c[1] < d[1]
    \/ c[3] = d[3] /\ c[1] = d[1] /\ c[2] <= d[2]

find_longest_match(a, b, alo, ahi, blo, bhi) ==
    Bind({<<alo, blo, 0>>} \cup
         {<<p[1], p[2], RunLen(a, b, p[1], p[2], ahi, bhi)>> :
             p \in (alo..(ahi - 1)) \X (blo..(bhi - 1))},
         LAMBDA blocks :
            Bind(SetMax({c[3] : c \in blocks}), LAMBDA k :
                IF k = 0 THEN <<alo, blo, 0>>
                ELSE CHOOSE c \in blocks : \A d \in blocks : BetterBlock(c, d)))

\* get_matching_blocks, summed: the block, then the same left and right of it
RECURSIVE MatchCount(_, _, _, _, _, _)
MatchCount(a, b, alo, ahi, blo, bhi) ==
    Bind(find_longest_match(a, b, alo, ahi, blo, bhi), LAMBDA m :
        IF m[3] = 0 THEN 0
        ELSE m[3]
             + (IF alo < m[1] /\ blo < m[2]
                THEN MatchCount(a, b, alo, m[1], blo, m[2]) ELSE 0)
             + (IF m[1] + m[3] < ahi /\ m[2] + m[3] < bhi
                THEN MatchCount(a, b, m[1] + m[3], ahi, m[2] + m[3], bhi) ELSE 0))

similarity_ratio(s1, s2) ==
    Bind(Lower(s1), LAMBDA a :
    Bind(Lower(s2), LAMBDA b :
        IF Len(a) + Len(b) = 0 THEN [num |-> 1, den |-> 1]
        ELSE [num |-> 2 * MatchCount(a, b, 1, Len(a) + 1, 1, Len(b) + 1),
              den |-> Len(a) + Len(b)]))

Zero == [num |-> 0, den |-> 1]

\* r < pn/pd
RatioBelow(r, pn, pd) == r.num * pd < pn * r.den

\* x + y as a fraction, and the comparison of two such sums
RatioSum(x, y) == [num |-> x.num * y.den + y.num * x.den, den |-> x.den * y.den]
RatioLess(x, y) == x.num * y.den < y.num * x.den

(***************************************************************************)
(* mp3ify.py: the Track record and the Candidate Matcher.                  *)
(***************************************************************************)
Autogenerated == <<" ", "a", "u", "t", "o", "g", "e", "n", "e", "r", "a", "t", "e", "d">>

\* get_info_single_track.  The code's field 'duration_ms' holds seconds, the
\* float duration_ms / 1000; the model keeps the milliseconds and scales the
\* other side of every comparison by 1000 instead, which is exact.
get_info_single_track(item) ==
    Bind(process_spotify_song_name(item.artists, item.name), LAMBDA n :
        [artists      |-> n.artists,
         song_name    |-> n.title,
         duration_ms  |-> item.duration_ms,
         search_query |-> Join(n.artists, <<" ">>) \o DashSep \o n.title \o Autogenerated,
         full_title   |-> Join(n.artists, CommaSep) \o DashSep \o n.title])

\* defaults of search_youtube_single_track
max_results == 5
duration_tolerance == 10
title_similarity_threshold == [num |-> 7, den |-> 10]
artist_similarity_threshold == [num |-> 1, den |-> 20]

Abs(x) == IF x < 0 THEN -x ELSE x

\* search_single_track(result, track_info, ...): the tuple (url, title
\* similarity, artist similarity) it returns, or the ValueError that
\* process_yt_title raises through it.
\* a gate that also rejects a difference of exactly the tolerance
DurationGateInclusive(duration_diff, tolerance) == duration_diff >= tolerance * 1000

\* line 80: if duration_diff > duration_tolerance (both sides in milliseconds)
DurationGate(duration_diff, tolerance) == duration_diff > tolerance * 1000

\* lines 83-87: the artist list and the title that are compared
ComparedText(result) ==
    IF result.artist = None THEN process_yt_title(result.title)
    ELSE [ok |-> TRUE, artists |-> result.artist, title |-> result.title]

search_single_track(result, track_info, tolerance, title_thr, artist_thr) ==
    IF DurationGate(Abs(result.duration * 1000 - track_info.duration_ms), tolerance)
    THEN [ok |-> TRUE, url |-> None, ts |-> Zero, as |-> Zero]
    ELSE
      Bind(ComparedText(result), LAMBDA yt :
        IF ~yt.ok THEN ValueError
        ELSE
          Bind(similarity_ratio(yt.title, track_info.song_name),
               LAMBDA title_similarity :
          Bind(similarity_ratio(Join(yt.artists, CommaSep),
                                Join(track_info.artists, CommaSep)),
               LAMBDA artist_similarity :
            IF \/ RatioBelow(title_similarity, title_thr.num, title_thr.den)
               \/ RatioBelow(artist_similarity, artist_thr.num, artist_thr.den)
            THEN [ok |-> TRUE, url |-> None,
                  ts |-> title_similarity, as |-> artist_similarity]
            ELSE [ok |-> TRUE, url |-> result.webpage_url,
                  ts |-> title_similarity, as |-> artist_similarity])))

\* key=lambda x: x[1] + x[2]
MatchKey(m) == RatioSum(m.ts, m.as)

\* max(matches, key=...): Python's max keeps the first of the maximal items
MaxMatch(matches) ==
    LET best == {i \in 1..Len(matches) :
                    \A j \in 1..Len(matches) :
                        ~RatioLess(MatchKey(matches[i]), MatchKey(matches[j]))}
    IN  matches[SetMin(best)]

(***************************************************************************)
(* The inputs: liked songs of the catalog and what the search backend may  *)
(* answer.  Durations are picked around the tolerance of 10 seconds.       *)
(***************************************************************************)
\* liked_songs['items'][i]['track'], reduced to the fields that are read
LikedItems ==
    { [artists |-> <<<<"A">>>>, name |-> <<"S", "o", "n", "g", " ", "f", "t", ".", " ", "B">>, duration_ms |-> 100000],
      [artists |-> <<<<"A">>, <<"B">>>>, name |-> <<"S", "o", "n", "g">>, duration_ms |-> 100000],
      [artists |-> <<<<"A">>>>, name |-> <<"X">>, duration_ms |-> 95500] }

Tracks == {get_info_single_track(item) : item \in LikedItems}

\* entries of a search response: duration in seconds, the free-text title,
\* the structured artist (a list of names) when the backend has one
CandidatePool ==
    { [duration |-> 104, title |-> <<"A", " ", "f", "t", ".", " ", "B", " ", "-", " ", "S", "o", "n", "g">>,
       artist |-> None, webpage_url |-> "u1"],
      [duration |-> 110, title |-> <<"S", "o", "n", "g">>,
       artist |-> <<<<"A">>, <<"B">>>>, webpage_url |-> "u2"],
      [duration |-> 111, title |-> <<"S", "o", "n", "g">>,
       artist |-> <<<<"A">>, <<"B">>>>, webpage_url |-> "u3"],
      [duration |-> 100, title |-> <<"A", "S", "o", "n", "g">>,
       artist |-> None, webpage_url |-> "u4"],
      [duration |-> 100, title |-> <<"A", " ", "-", " ", "S", "o", "n">>,
       artist |-> None, webpage_url |-> "u5"],
      [duration |-> 100, title |-> <<"S", "o", "n", "g">>,
       artist |-> <<<<"X">>>>, webpage_url |-> "u6"],
      [duration |-> 105, title |-> <<"A", " ", "-", " ", "X">>,
       artist |-> None, webpage_url |-> "u7"] }

Min2(a, b) == IF a < b THEN a ELSE b

\* the responses of the backend to ytsearch<max_results> with at most k
\* entries: all different videos
Responses(k) ==
    UNION { {e \in [1..n -> CandidatePool] : \A i, j \in 1..n : i # j => e[i] # e[j]} :
            n \in 0..k }

SearchResponses == Responses(Min2(max_results, MaxEntries))

\* executor.submit(search_single_track, result, track_info, duration_tolerance,
\* title_similarity_threshold, artist_similarity_threshold)
Evaluate(result, track_info) ==
    search_single_track(result, track_info, duration_tolerance,
                        title_similarity_threshold, artist_similarity_threshold)

(***************************************************************************)
(* SpecResolve: search_youtube_single_track(track_info) with the defaults. *)
(*   rPc = "search"   before ydl.extract_info                              *)
(*         "collect"  in the as_completed loop (futures submitted)         *)
(*         "raising"  future.result() raised; leaving the executor's with  *)
(*         "pick"     the with block is left, matches is complete          *)
(*         "returned" / "raised"  the call is over                         *)
(***************************************************************************)
InitResolve ==
    /\ NormIdle
    /\ BatchIdle
    /\ rTrack \in Tracks
    /\ rPc = "search"
    /\ rEntries = <<>>
    /\ rFut = <<>>
    /\ rYielded = <<>>
    /\ rMatches = <<>>
    /\ rResult = NoResult

\* ydl.extract_info answers; every entry is submitted to the executor
SearchOk(response) ==
    /\ rPc = "search"
    /\ rEntries' = response
    /\ rFut' = [i \in 1..Len(response) |-> Pending]
    /\ rPc' = "collect"
    /\ UNCHANGED <<rTrack, rYielded, rMatches, rResult, normVars, batchVars>>

\* ydl.extract_info raises: re-raised as RuntimeError
SearchRaises ==
    /\ rPc = "search"
    /\ rResult' = SearchError
    /\ rPc' = "raised"
    /\ UNCHANGED <<rTrack, rEntries, rFut, rYielded, rMatches, normVars, batchVars>>

\* a pool thread runs search_single_track for the i-th entry.  Threads go on
\* running while the main thread is in the loop or waits in the with's exit.
RunFuture(i) ==
    /\ rPc \in {"collect", "raising"}
    /\ i \in 1..Len(rFut)
    /\ rFut[i].state = "pending"
    /\ rFut' = [rFut EXCEPT ![i] =
                  [state |-> "done", result |-> Evaluate(rEntries[i], rTrack)]]
    /\ UNCHANGED <<rTrack, rPc, rEntries, rYielded, rMatches, rResult, normVars, batchVars>>

\* if match[0]: matches.append(match)
CollectMatch(matches, match) ==
    IF match.url # None THEN Append(matches, match) ELSE matches

\* a loop that breaks as soon as a yielded future holds an accepted match
AsCompletedBreakOnMatch(yielded, futures) ==
    \/ Len(yielded) = Len(futures)
    \/ \E k \in 1..Len(yielded) :
          futures[yielded[k]].result.ok /\ futures[yielded[k]].result.url # None

\* `for future in as_completed(futures)` ends when every future was yielded
AsCompletedExhausted(yielded, futures) == Len(yielded) = Len(futures)

\* for future in as_completed(futures): any finished future not yet yielded
\* comes next; future.result() re-raises what the evaluation raised.
YieldFuture(i) ==
    /\ rPc = "collect"
    /\ i \in 1..Len(rFut)
    /\ ~AsCompletedExhausted(rYielded, rFut)
    /\ ~InSeq(i, rYielded)
    /\ rFut[i].state = "done"
    /\ rYielded' = Append(rYielded, i)
    /\ IF rFut[i].result.ok
       THEN /\ rMatches' = CollectMatch(rMatches, rFut[i].result)
            /\ UNCHANGED <<rPc, rResult>>
       ELSE /\ rPc' = "raising"
            /\ rResult' = [kind |-> "raise", error |-> rFut[i].result.error]
            /\ UNCHANGED rMatches
    /\ UNCHANGED <<rTrack, rEntries, rFut, normVars, batchVars>>

\* the exit of `with ThreadPoolExecutor() as executor`: shutdown(wait=True)
\* returns once every submitted future has run, none is cancelled
ExecutorJoined(futures) == \A i \in 1..Len(futures) : futures[i].state = "done"

\* the loop is over or an exception leaves the block
LeaveExecutor ==
    /\ \/ rPc = "collect" /\ AsCompletedExhausted(rYielded, rFut)
       \/ rPc = "raising"
    /\ ExecutorJoined(rFut)
    /\ rPc' = IF rPc = "collect" THEN "pick" ELSE "raised"
    /\ UNCHANGED <<rTrack, rEntries, rFut, rYielded, rMatches, rResult, normVars, batchVars>>

\* lines 148-154: the return value
PickResult(matches, full_title) ==
    IF matches = <<>> THEN [kind |-> "return", url |-> None, title |-> full_title]
    ELSE [kind |-> "return", url |-> MaxMatch(matches).url, title |-> full_title]

Pick ==
    /\ rPc = "pick"
    /\ rResult' = PickResult(rMatches, rTrack.full_title)
    /\ rPc' = "returned"
    /\ UNCHANGED <<rTrack, rEntries, rFut, rYielded, rMatches, normVars, batchVars>>

NextResolve ==
    \/ \E response \in SearchResponses : SearchOk(response)
    \/ SearchRaises
    \/ \E i \in 1..Len(rFut) : RunFuture(i)
    \/ \E i \in 1..Len(rFut) : YieldFuture(i)
    \/ LeaveExecutor
    \/ Pick

SpecResolve == InitResolve /\ [][NextResolve]_vars

(***************************************************************************)
(* SpecNorm: a raw title is typed token by token, then normalised.         *)
(***************************************************************************)
TitleTokens ==
    { <<"S">>, <<" ", "B">>, <<" ", "C">>, <<",", " ", "C">>, <<")">> }
    \cup {feat_strings[k] : k \in 1..Len(feat_strings)}

CatalogArtists == { << <<"A">> >>, << <<"A">>, <<"B">> >> }

InitNorm ==
    /\ ResolveIdle
    /\ BatchIdle
    /\ nArtists \in CatalogArtists
    /\ nTitle = <<>>
    /\ nPc = "input"
    /\ nResult = ValueError

TypeToken(tok) ==
    /\ nPc = "input"
    /\ Len(nTitle) < MaxTokens
    /\ nTitle' = Append(nTitle, tok)
    /\ UNCHANGED <<nArtists, nPc, nResult, resolveVars, batchVars>>

Normalize ==
    /\ nPc = "input"
    /\ nResult' = process_spotify_song_name(nArtists, Concat(nTitle))
    /\ nPc' = "done"
    /\ UNCHANGED <<nArtists, nTitle, resolveVars, batchVars>>

NextNorm ==
    \/ \E tok \in TitleTokens : TypeToken(tok)
    \/ Normalize

SpecNorm == InitNorm /\ [][NextNorm]_vars

(***************************************************************************)
(* search_youtube_single_track as one call, for the batch layer: the       *)
(* search answers `response` (or raises), as_completed yields the futures  *)
(* in `order`, and the call returns or raises what SpecResolve's steps     *)
(* would leave in rResult.                                                 *)
(***************************************************************************)
Perms(n) == {o \in [1..n -> 1..n] : \A i, j \in 1..n : i # j => o[i] # o[j]}

\* the as_completed loop over the results, in the order of their yield
RECURSIVE CollectInOrder(_, _, _)
CollectInOrder(results, order, matches) ==
    IF order = <<>> THEN [ok |-> TRUE, matches |-> matches]
    ELSE IF ~results[Head(order)].ok THEN results[Head(order)]
    ELSE Bind(CollectMatch(matches, results[Head(order)]), LAMBDA collected :
            CollectInOrder(results, Tail(order), collected))

\* lines 144-154, for the results of the futures yielded in `order`
OutcomeOf(results, order, full_title) ==
    Bind(CollectInOrder(results, order, <<>>), LAMBDA collected :
        IF ~collected.ok THEN [kind |-> "raise", error |-> collected.error]
        ELSE PickResult(collected.matches, full_title))

ResolveOutcome(track_info, response, order) ==
    Bind([i \in 1..Len(response) |-> Evaluate(response[i], track_info)], LAMBDA results :
        OutcomeOf(results, order, track_info.full_title))

\* the responses the backend gives in a batch run
BatchResponses == Responses(Min2(max_results, MaxBatchEntries))

\* everything one call can do for a track: the search raises, or it answers
\* one of the responses and the futures are yielded in one of the orders
ResolveOutcomes(track_info) ==
    Bind([e \in CandidatePool |-> Evaluate(e, track_info)], LAMBDA evaluated :
        {SearchError} \cup
        UNION { {OutcomeOf([i \in 1..Len(r) |-> evaluated[r[i]]], o, track_info.full_title) :
                    o \in Perms(Len(r))} : r \in BatchResponses })

(***************************************************************************)
(* SpecBatch: the __main__ block.  Pool() starts bProcs processes;         *)
(* starmap cuts the tasks into chunks, a process takes a chunk and runs    *)
(* download_track for its tasks one after the other; an exception that     *)
(* leaves download_track ends the chunk and fails the map, whose result    *)
(* is ready once every chunk is finished.                                  *)
(*   worker pc  "idle"       waiting for a chunk                           *)
(*              "call"       at line 168, before search_youtube_single_track*)
(*              "append171"  url is None, before failed_tracks.append      *)
(*              "download"   before ydl.download([url])                    *)
(*              "append192"  in the except branch, before the append       *)
(*   bMain      "starmap" -> "report" -> "done", or "starmap" -> "aborted" *)
(***************************************************************************)
\* Pool._map_async: chunksize, extra = divmod(len(iterable), len(pool) * 4)
ChunkSize(n, procs) ==
    IF n = 0 THEN 0
    ELSE (n \div (procs * 4)) + (IF n % (procs * 4) # 0 THEN 1 ELSE 0)

\* Pool._get_tasks: the task indices 1..n in chunks of size k
RECURSIVE Chunks(_, _, _)
Chunks(from, n, k) ==
    IF from > n THEN <<>>
    ELSE <<[i \in 1..Min2(k, n - from + 1) |-> from + i - 1]>> \o Chunks(from + k, n, k)

IdleWorker == [pc |-> "idle", chunk |-> <<>>, url |-> None]

InitBatch ==
    /\ NormIdle
    /\ ResolveIdle
    /\ \E n \in 0..MaxTracks : bTracks \in [1..n -> Tracks]
    /\ bProcs \in 1..MaxProcs
    /\ bTaskq = Chunks(1, Len(bTracks), ChunkSize(Len(bTracks), bProcs))
    /\ bWorker = [w \in 1..bProcs |-> IdleWorker]
    /\ bHist = [t \in 1..Len(bTracks) |-> <<"PENDING">>]
    /\ bSearches = [t \in 1..Len(bTracks) |-> 0]
    /\ bDownloads = [t \in 1..Len(bTracks) |-> 0]
    /\ bError = [t \in 1..Len(bTracks) |-> None]
    /\ failed_tracks = <<>>
    /\ bLeft = Len(bTaskq)
    /\ bSuccess = TRUE
    /\ bMain = "starmap"
    /\ bReport = <<>>

Current(w) == Head(bWorker[w].chunk)

\* a pool process takes the next chunk from the task queue
TakeChunk(w) ==
    /\ bMain = "starmap"
    /\ bWorker[w].pc = "idle"
    /\ bTaskq # <<>>
    /\ bWorker' = [bWorker EXCEPT ![w] = [pc |-> "call", chunk |-> Head(bTaskq), url |-> None]]
    /\ bTaskq' = Tail(bTaskq)
    /\ UNCHANGED <<bTracks, bProcs, bHist, bSearches, bDownloads, bError, failed_tracks,
                   bLeft, bSuccess, bMain, bReport, normVars, resolveVars>>

\* download_track returned: the next task of the chunk, or the chunk is done
TaskReturns(w) ==
    /\ bWorker' = [bWorker EXCEPT ![w] =
                      IF Len(bWorker[w].chunk) > 1
                      THEN [pc |-> "call", chunk |-> Tail(bWorker[w].chunk), url |-> None]
                      ELSE IdleWorker]
    /\ bLeft' = IF Len(bWorker[w].chunk) > 1 THEN bLeft ELSE bLeft - 1
    /\ UNCHANGED bSuccess

\* an exception left download_track: the rest of the chunk is not run, the
\* chunk is finished and the map has failed
TaskRaises(w) ==
    /\ bWorker' = [bWorker EXCEPT ![w] = IdleWorker]
    /\ bLeft' = bLeft - 1
    /\ bSuccess' = FALSE

\* download_track without the test of line 170
AfterResolveNoTest(url) == "download"

\* lines 170-172: `if url is None` leads to the append and the return
AfterResolve(url) == IF url = None THEN "append171" ELSE "download"

\* line 168, search_youtube_single_track returns (url, title)
ResolveReturns(w, out) ==
    /\ bWorker[w].pc = "call"
    /\ out.kind = "return"
    /\ bSearches' = [bSearches EXCEPT ![Current(w)] = @ + 1]
    /\ bHist' = [bHist EXCEPT ![Current(w)] =
                    Append(@, IF out.url = None THEN "UNRESOLVED" ELSE "RESOLVED")]
    /\ bWorker' = [bWorker EXCEPT ![w].pc = AfterResolve(out.url), ![w].url = out.url]
    /\ UNCHANGED <<bTracks, bProcs, bTaskq, bDownloads, bError, failed_tracks,
                   bLeft, bSuccess, bMain, bReport, normVars, resolveVars>>

\* line 168, search_youtube_single_track raises (RuntimeError of the search,
\* ValueError of a title): nothing in download_track catches it
ResolveRaises(w, out) ==
    /\ bWorker[w].pc = "call"
    /\ out.kind = "raise"
    /\ bSearches' = [bSearches EXCEPT ![Current(w)] = @ + 1]
    /\ bError' = [bError EXCEPT ![Current(w)] = out.error]
    /\ TaskRaises(w)
    /\ UNCHANGED <<bTracks, bProcs, bTaskq, bHist, bDownloads, failed_tracks,
                   bMain, bReport, normVars, resolveVars>>

\* an append to a list that is a copy in the pool process: lost to the parent
FailedAppendToCopy(log, title) == log

\* failed_tracks.append(title): one call served by the manager process
FailedAppend(log, title) == Append(log, title)

\* line 171 and the return of line 172
AppendUnresolved(w) ==
    /\ bWorker[w].pc = "append171"
    /\ failed_tracks' = FailedAppend(failed_tracks, bTracks[Current(w)].full_title)
    /\ TaskReturns(w)
    /\ UNCHANGED <<bTracks, bProcs, bTaskq, bHist, bSearches, bDownloads, bError,
                   bMain, bReport, normVars, resolveVars>>

\* line 189, ydl.download([url]) succeeds
DownloadOk(w) ==
    /\ bWorker[w].pc = "download"
    /\ bDownloads' = [bDownloads EXCEPT ![Current(w)] = @ + 1]
    /\ bHist' = [bHist EXCEPT ![Current(w)] = Append(@, "DOWNLOADED")]
    /\ TaskReturns(w)
    /\ UNCHANGED <<bTracks, bProcs, bTaskq, bSearches, bError, failed_tracks,
                   bMain, bReport, normVars, resolveVars>>

\* line 189 raises, line 190 catches
DownloadRaises(w) ==
    /\ bWorker[w].pc = "download"
    /\ bDownloads' = [bDownloads EXCEPT ![Current(w)] = @ + 1]
    /\ bHist' = [bHist EXCEPT ![Current(w)] = Append(@, "FAILED")]
    /\ bWorker' = [bWorker EXCEPT ![w].pc = "append192"]
    /\ UNCHANGED <<bTracks, bProcs, bTaskq, bSearches, bError, failed_tracks,
                   bLeft, bSuccess, bMain, bReport, normVars, resolveVars>>

\* line 192
AppendFailed(w) ==
    /\ bWorker[w].pc = "append192"
    /\ failed_tracks' = FailedAppend(failed_tracks, bTracks[Current(w)].full_title)
    /\ TaskReturns(w)
    /\ UNCHANGED <<bTracks, bProcs, bTaskq, bHist, bSearches, bDownloads, bError,
                   bMain, bReport, normVars, resolveVars>>

\* pool.starmap returns: every chunk is finished and none failed
StarmapReturns ==
    /\ bMain = "starmap"
    /\ bLeft = 0
    /\ bSuccess
    /\ bMain' = "report"
    /\ UNCHANGED <<bTracks, bProcs, bTaskq, bWorker, bHist, bSearches, bDownloads, bError,
                   failed_tracks, bLeft, bSuccess, bReport, normVars, resolveVars>>

\* pool.starmap re-raises the first exception of a chunk: it leaves the with
\* block and the program, lines 212-215 are not run
StarmapRaises ==
    /\ bMain = "starmap"
    /\ bLeft = 0
    /\ ~bSuccess
    /\ bMain' = "aborted"
    /\ UNCHANGED <<bTracks, bProcs, bTaskq, bWorker, bHist, bSearches, bDownloads, bError,
                   failed_tracks, bLeft, bSuccess, bReport, normVars, resolveVars>>

ReportHeader == "The following tracks failed to download:"

\* lines 212-215
Report ==
    /\ bMain = "report"
    /\ bReport' = IF failed_tracks # <<>> THEN <<ReportHeader>> \o failed_tracks ELSE <<>>
    /\ bMain' = "done"
    /\ UNCHANGED <<bTracks, bProcs, bTaskq, bWorker, bHist, bSearches, bDownloads, bError,
                   failed_tracks, bLeft, bSuccess, normVars, resolveVars>>

\* the workers that stand before the call of line 168
Calling == {w \in 1..bProcs : bWorker[w].pc = "call"}

NextBatch ==
    \/ \E w \in 1..bProcs : TakeChunk(w)
    \/ \E w \in Calling : \E out \in ResolveOutcomes(bTracks[Current(w)]) :
            ResolveReturns(w, out)
    \/ \E w \in Calling : \E out \in ResolveOutcomes(bTracks[Current(w)]) :
            ResolveRaises(w, out)
    \/ \E w \in 1..bProcs : AppendUnresolved(w)
    \/ \E w \in 1..bProcs : DownloadOk(w)
    \/ \E w \in 1..bProcs : DownloadRaises(w)
    \/ \E w \in 1..bProcs : AppendFailed(w)
    \/ StarmapReturns
    \/ StarmapRaises
    \/ Report

SpecBatch == InitBatch /\ [][NextBatch]_vars

(***************************************************************************)
(* Properties.                                                             *)
(***************************************************************************)
Last(seq) == seq[Len(seq)]

\* ---- the normalizer -----------------------------------------------------
RawTitle == Concat(nTitle)

MarkersIn(title) == {k \in 1..Len(feat_strings) : Contains(title, feat_strings[k])}

\* C9: for a raw title that holds more than one of the markers, the returned
\* title is the trimmed text left of the marker that comes first in the
\* priority order, and the appended names come from that marker's right part
\* only.  (Stated for the calls that return.)
C9_FirstMarkerOnly ==
    (nPc = "done" /\ nResult.ok /\ Cardinality(MarkersIn(RawTitle)) > 1) =>
        LET first == feat_strings[SetMin(MarkersIn(RawTitle))]
            parts == SplitOnce(RawTitle, first)
        IN  /\ nResult.title = Strip(parts[1])
            /\ nResult.artists = AppendNew(nArtists, ParseFeatured(parts[2]))

\* ---- resolve ------------------------------------------------------------
Done(i) == rFut[i].state = "done"

SearchAnswered == rPc \in {"returned", "raised"} /\ rResult # SearchError

\* the entries evaluate accepted
AcceptedIdx ==
    {i \in 1..Len(rFut) : Done(i) /\ rFut[i].result.ok /\ rFut[i].result.url # None}

\* those of them whose title_score + artist_score is maximal
MaximalIdx ==
    {i \in AcceptedIdx :
        \A j \in AcceptedIdx :
            ~RatioLess(MatchKey(rFut[i].result), MatchKey(rFut[j].result))}

Malformed(entry) == entry.artist = None /\ ~Contains(entry.title, DashSep)

\* the steps of SpecResolve and the one-call form of the batch layer agree
ResolveStepsAgree ==
    SearchAnswered => rResult = ResolveOutcome(rTrack, rEntries, rYielded)

\* C3: an entry with no artist field and no " - " in its title only counts as
\* a non-match: resolve still returns, and returns the best accepted match of
\* the other entries, or no url when there is none.
C3_MalformedIsOnlyNonMatching ==
    (SearchAnswered /\ \E i \in 1..Len(rEntries) : Malformed(rEntries[i])) =>
        /\ rPc = "returned"
        /\ IF AcceptedIdx = {} THEN rResult.url = None
           ELSE \E i \in MaximalIdx : rResult.url = rEntries[i].webpage_url

\* C4: of the accepted entries with the maximal sum, resolve returns the one
\* that is earliest in the search response, whatever the order of completion.
C4_TieGoesToEarliestSubmitted ==
    (rPc = "returned" /\ AcceptedIdx # {}) =>
        rResult.url = rEntries[SetMin(MaximalIdx)].webpage_url

DurationDiff(i) == Abs(rEntries[i].duration * 1000 - rTrack.duration_ms)

\* both similarity thresholds are met by the i-th entry's text
TextPasses(i) ==
    LET yt == ComparedText(rEntries[i])
    IN  /\ yt.ok
        /\ ~RatioBelow(similarity_ratio(yt.title, rTrack.song_name),
                       title_similarity_threshold.num, title_similarity_threshold.den)
        /\ ~RatioBelow(similarity_ratio(Join(yt.artists, CommaSep),
                                        Join(rTrack.artists, CommaSep)),
                       artist_similarity_threshold.num, artist_similarity_threshold.den)

\* C5: an entry more than duration_tolerance off the track's duration is
\* rejected with no url and scores (0, 0) whatever its text, and resolve does
\* not return its url; an entry exactly duration_tolerance off is accepted
\* when its text meets both thresholds.
C5_DurationIsAHardGate ==
    \A i \in 1..Len(rFut) :
        Done(i) =>
            /\ DurationDiff(i) > duration_tolerance * 1000 =>
                   /\ rFut[i].result = [ok |-> TRUE, url |-> None, ts |-> Zero, as |-> Zero]
                   /\ rPc = "returned" => rResult.url # rEntries[i].webpage_url
            /\ (DurationDiff(i) = duration_tolerance * 1000 /\ TextPasses(i)) =>
                   /\ rFut[i].result.ok
                   /\ rFut[i].result.url = rEntries[i].webpage_url

\* an entry at exactly the tolerance was accepted and returned, next to one
\* beyond the tolerance whose text is a perfect match
C5_Witness ==
    /\ rPc = "returned"
    /\ \E i, j \in 1..Len(rFut) :
          /\ DurationDiff(i) = duration_tolerance * 1000
          /\ rResult.url = rEntries[i].webpage_url
          /\ DurationDiff(j) > duration_tolerance * 1000
          /\ TextPasses(j)
          /\ rFut[j].result.url = None

\* C8: a returned url is that of an accepted entry whose sum is at least that
\* of every other accepted entry, and resolve returns (None, full_title)
\* exactly when no entry is accepted.
C8_ResolveReturnsBestOrNone ==
    SearchAnswered =>
        /\ (rPc = "returned" /\ rResult.url # None) =>
               \E i \in MaximalIdx : rResult.url = rEntries[i].webpage_url
        /\ (AcceptedIdx = {}) <=>
               (/\ rPc = "returned"
                /\ rResult = [kind |-> "return", url |-> None, title |-> rTrack.full_title])

\* C10: the winner is picked, and the call is over, only after every
\* evaluation that was submitted has completed and has been aggregated; an
\* accepted match that is already known cancels and skips nothing.
C10_FullJoinBeforePick ==
    /\ rPc \in {"pick", "returned", "raised"} => \A i \in 1..Len(rFut) : Done(i)
    /\ rPc \in {"pick", "returned"} =>
           \A i \in 1..Len(rFut) : InSeq(i, rYielded)
    /\ rResult.kind = "return" => rPc = "returned"

\* the first future yielded was already an accepted match, and the other
\* evaluations were still run and aggregated before the return
C10_Witness ==
    /\ rPc = "returned"
    /\ Len(rFut) >= 2
    /\ rFut[rYielded[1]].result.url # None
    /\ Len(rYielded) = Len(rFut)

\* ---- the batch ----------------------------------------------------------
TrackIds == 1..Len(bTracks)

Terminal == {"DOWNLOADED", "FAILED", "UNRESOLVED"}

BatchOver == bMain \in {"done", "aborted"}

Count(seq, x) == Cardinality({i \in 1..Len(seq) : seq[i] = x})

\* C1: a track whose search call raised ends UNRESOLVED, its display title is
\* in the failure log, and no download was attempted for it.
C1_SearchErrorIsLogged ==
    BatchOver =>
        \A t \in TrackIds :
            bError[t] = "RuntimeError" =>
                /\ Last(bHist[t]) = "UNRESOLVED"
                /\ InSeq(bTracks[t].full_title, failed_tracks)
                /\ bDownloads[t] = 0

\* C2: no per-track error aborts the batch: starmap returns, every track
\* reaches a terminal state and the report lists the failed tracks.
C2_NoErrorAbortsTheBatch ==
    BatchOver =>
        /\ bMain = "done"
        /\ \A t \in TrackIds : Last(bHist[t]) \in Terminal
        /\ failed_tracks # <<>> => bReport = <<ReportHeader>> \o failed_tracks

AllowedSequences ==
    { <<"PENDING">>,
      <<"PENDING", "UNRESOLVED">>,
      <<"PENDING", "RESOLVED">>,
      <<"PENDING", "RESOLVED", "DOWNLOADED">>,
      <<"PENDING", "RESOLVED", "FAILED">> }

\* C6: a track only goes PENDING -> RESOLVED -> DOWNLOADED, PENDING ->
\* RESOLVED -> FAILED or PENDING -> UNRESOLVED; a download is attempted only
\* with the url resolve returned, never for an unresolved track; a track has
\* at most one search call and at most one download call.
C6_TrackSequences ==
    /\ \A t \in TrackIds :
          /\ bHist[t] \in AllowedSequences
          /\ bSearches[t] <= 1
          /\ bDownloads[t] <= 1
          /\ Len(bHist[t]) >= 2 => bSearches[t] = 1
          /\ bDownloads[t] = 1 <=> (Len(bHist[t]) = 3)
    /\ \A w \in 1..bProcs :
          bWorker[w].pc = "download" =>
              /\ bWorker[w].url # None
              /\ bHist[Current(w)] = <<"PENDING", "RESOLVED">>
              /\ bDownloads[Current(w)] = 0

\* a run that ended with one track unresolved after its one search and never
\* downloaded, and one track failed after its one search and its one download
C6_Witness ==
    /\ bMain = "done"
    /\ \E t1, t2 \in TrackIds :
          /\ bHist[t1] = <<"PENDING", "UNRESOLVED">>
          /\ bSearches[t1] = 1 /\ bDownloads[t1] = 0
          /\ bHist[t2] = <<"PENDING", "RESOLVED", "FAILED">>
          /\ bSearches[t2] = 1 /\ bDownloads[t2] = 1

\* C7: when the batch ends the failure log holds the display title of every
\* track that resolve returned no url for or whose download raised, once per
\* such track, and nothing for a downloaded track; a download error is caught
\* in the worker: it is not what ends a chunk or fails the map.
C7_FailureLogIsExact ==
    /\ bMain \in {"report", "done", "aborted"} =>
          \A t \in Tracks :
              Count(failed_tracks, t.full_title) =
                  Cardinality({i \in TrackIds :
                                  /\ bTracks[i].full_title = t.full_title
                                  /\ Last(bHist[i]) \in {"UNRESOLVED", "FAILED"}})
    /\ \A i \in TrackIds : Last(bHist[i]) = "FAILED" => bError[i] = None
    /\ (bMain = "aborted" \/ ~bSuccess) => \E i \in TrackIds : bError[i] # None
    /\ (BatchOver /\ \A i \in TrackIds : bError[i] = None) =>
          \A i \in TrackIds : Last(bHist[i]) \in Terminal

\* two processes ran two different tracks at once, the download of the first
\* raised and the second was unresolved: the log holds both titles, the
\* second track's before the first's
C7_Witness ==
    /\ bMain = "done"
    /\ bProcs = 2
    /\ Len(bTracks) = 2
    /\ Last(bHist[1]) = "FAILED"
    /\ Last(bHist[2]) = "UNRESOLVED"
    /\ bTracks[1].full_title # bTracks[2].full_title
    /\ failed_tracks = <<bTracks[2].full_title, bTracks[1].full_title>>

====
